---------------------------- MODULE Spec2Model ----------------------------
(***************************************************************************)
(* Model of throttle-quadrant-breadbox.ino: the polling loop that reads    *)
(* three potentiometers, a two-bit Gray-code rotary encoder, a reverse     *)
(* thrust button, a gear switch and a flap switch, debounces them and      *)
(* drives the buttons and axes of a USB HID joystick.                      *)
(*                                                                         *)
(* One action, Poll, is one iteration of loop().  The environment chooses  *)
(* how far millis() has advanced since the previous iteration and what the *)
(* pins read.  Every millis() call of one iteration returns the same       *)
(* value: an iteration is far shorter than the millisecond tick.           *)
(*                                                                         *)
(* The two earlier sketches of the repository, which decode the encoder    *)
(* from pin edges without a debounce, are modelled by LegacyPoll.          *)
(***************************************************************************)
EXTENDS Integers, Sequences, FiniteSets, TLC

(***************************************************************************)
(* Program constants                                                       *)
(***************************************************************************)
potBouncePeriod == 200
encBouncePeriod == 10
encButtonPeriod == 100
butBouncePeriod == 50

encShift == 5

joyEncUp == 0
joyEncDn == 1
joyRev == 2
joyGearUp == 3
joyGearDn == 4
joyFlapUp == 5
joyFlapTo == 6
joyFlapLg == 7

\* Initial value of encLastVal, revLastVal, gearLastVal, flapLastVal
ByteUnset == 255
\* Initial value of potLastVal1..3
PotUnset == 2048
\* Largest value analogRead() returns (10-bit converter)
AnalogMax == 1023

(***************************************************************************)
(* Bounds of the model                                                     *)
(***************************************************************************)
\* Width of the millis() counter.  The board's unsigned long has 32 bits;
\* the model keeps the modular arithmetic and narrows the counter.
TimerBits == 10
\* Last clock value explored when the encoder is the input under test
MaxTimeEnc == 36
\* Last clock value explored when a button or switch is the input under test
MaxTimeBut == 105
\* Gap between two polls of a button or switch (the next gap is one longer)
PollGapBut == 25
\* Distance between the two inputs of a taper pair
TaperSpan == 2

TimerModulus == 2 ^ TimerBits

(***************************************************************************)
(* Byte arithmetic                                                         *)
(***************************************************************************)
RECURSIVE BitOr(_, _, _)
\* a | b over the low n bits
BitOr(a, b, n) ==
    IF n = 0 THEN 0
    ELSE (IF (a % 2 = 1) \/ (b % 2 = 1) THEN 1 ELSE 0)
         + 2 * BitOr(a \div 2, b \div 2, n - 1)

\* (byte)(x << k)
ShiftLeftByte(x, k) == (x * (2 ^ k)) % 256

\* The subtraction as if the clock never wrapped
ElapsedUnwrapped(t, tmr) == t - tmr

\* millis() - tmr in unsigned arithmetic
Elapsed(t, tmr) == (t - tmr) % TimerModulus

(***************************************************************************)
(* correctTaper                                                            *)
(***************************************************************************)
\* correctTaper with the upper half not mirrored
correctTaperUnmirrored(in) ==
    IF in < 58 THEN in * 5
    ELSE (in - 57) \div 2 + 285

\* correctTaper with the mirrored middle branch rounding the other way
correctTaperSkewed(in) ==
    IF in < 58 THEN in * 5
    ELSE IF in < 512 THEN (in - 57) \div 2 + 285
    ELSE IF in < 967 THEN 1023 - ((1023 - in - 56) \div 2 + 285)
    ELSE IF in < 1021 THEN 1023 - ((1023 - in) * 5)
    ELSE 1023

correctTaper(in) ==
    IF in < 58 THEN in * 5
    ELSE IF in < 512 THEN (in - 57) \div 2 + 285
    ELSE IF in < 967 THEN 1023 - ((1023 - in - 57) \div 2 + 285)
    ELSE IF in < 1021 THEN 1023 - ((1023 - in) * 5)
    ELSE 1023

(***************************************************************************)
(* State                                                                   *)
(***************************************************************************)
VARIABLES
    now,            \* millis() of the latest loop iteration
    pins,           \* what the inputs read in the latest loop iteration
    pot1Tmr, pot2Tmr, pot3Tmr,
    encBounceTmr, encButtonTmr,
    revBounceTmr, gearBounceTmr, flapBounceTmr,
    potLastVal1, potLastVal2, potLastVal3,
    encArmFlag, encButtonFlag, encLastVal,
    revArmFlag, gearArmFlag, flapArmFlag,
    revLastVal, gearLastVal, flapLastVal,
    joy,            \* Joystick: button id -> 0 | 1
    axes,           \* Joystick: throttle, Rx and Ry values
    calls,          \* Joystick calls of the latest loop iteration, in order
    focus,          \* the input the environment exercises; the others rest
    event,          \* what the latest iteration did to the focus channel
    tick,           \* direction the latest iteration decoded, or "none"
    held,           \* time for which the polls have read, without a break, a
                    \* value other than the focus channel's last stable
                    \* value, up to one more than its debounce period
    run,            \* the focus channel over the current run of equal samples:
                    \* its stable value when the run began, whether the run's
                    \* first poll armed it, its commits and button updates
    clock,          \* the time since start-up that does not wrap, and at what
                    \* such time the focus channel was armed and an encoder
                    \* button pressed
    potLog,         \* the axis setter calls of the focus potentiometer
    pulse,          \* the latest encoder button pulse: the button, when it went
                    \* down, the press and release calls since, and the ticks
                    \* decoded while it was down; when an encoder button
                    \* was last released, and whether a tick was decoded in
                    \* the release state since
    steps,          \* directions the environment has turned the encoder
    codeSince,      \* millis() of the first poll that read the present code
    ticks,          \* directions the loop has decoded
    taperIn, taperOut,
    twin            \* a second run of the sketch, on other inputs: its
                    \* globals and its Joystick

\* The earlier sketches (part_001, part_002), which decode the encoder
\* without a debounce
VARIABLES
    sketch,         \* which of the two sketches runs
    legacyNow,      \* millis() of its latest loop iteration
    legacyPotLastVal,   \* <<potLastVal1, potLastVal2, potLastVal3>>
    encLastValUp, encLastValDn,
    encTriggerUp, encTriggerDn,
    encUpTimer, encDnTimer,
    debugEncClicks,
    legacyJoy,      \* Joystick: button id -> 0 | 1
    legacyCalls,    \* Joystick calls of the latest loop iteration, in order
    legacyLog       \* the down button's present pulse and what the latest
                    \* iteration read

legacyVars == <<sketch, legacyNow, legacyPotLastVal, encLastValUp, encLastValDn,
                encTriggerUp, encTriggerDn, encUpTimer, encDnTimer,
                debugEncClicks, legacyJoy, legacyCalls, legacyLog>>

progVars == <<pot1Tmr, pot2Tmr, pot3Tmr, encBounceTmr, encButtonTmr,
              revBounceTmr, gearBounceTmr, flapBounceTmr,
              potLastVal1, potLastVal2, potLastVal3,
              encArmFlag, encButtonFlag, encLastVal,
              revArmFlag, gearArmFlag, flapArmFlag,
              revLastVal, gearLastVal, flapLastVal>>
hidVars == <<joy, axes, calls>>
logVars == <<steps, codeSince, ticks>>
envVars == <<now, pins, focus, event, tick, held, run, pulse, potLog, clock,
             logVars>>
taperVars == <<taperIn, taperOut>>
vars == <<progVars, hidVars, envVars, taperVars, legacyVars, twin>>

Buttons == 0 .. 7
Channels == {"enc", "rev", "gear", "flap"}
Pots == {"pot1", "pot2", "pot3"}

(***************************************************************************)
(* Joystick (the HID library): setButton and the axis setters store the    *)
(* value they are given.                                                   *)
(***************************************************************************)
SetButton(b, v) == [fn |-> "setButton", id |-> b, val |-> v]
SetAxis(name, v) == [fn |-> name, id |-> -1, val |-> v]

RECURSIVE ApplyButtons(_, _)
ApplyButtons(j, cs) ==
    IF cs = <<>> THEN j
    ELSE LET c == Head(cs)
         IN ApplyButtons(IF c.fn = "setButton"
                            THEN [j EXCEPT ![c.id] = c.val] ELSE j,
                         Tail(cs))

RECURSIVE ApplyAxes(_, _)
ApplyAxes(a, cs) ==
    IF cs = <<>> THEN a
    ELSE LET c == Head(cs)
         IN ApplyAxes(IF c.fn = "setButton" THEN a
                         ELSE [a EXCEPT ![c.fn] = c.val],
                      Tail(cs))

(***************************************************************************)
(* Reading the pins                                                        *)
(***************************************************************************)
\* (encPort >> encShift) & 0b00000011
EncRead(port) == (port \div (2 ^ encShift)) % 4

\* !digitalRead(flapPin1) + (!digitalRead(flapPin2) << 1)
FlapRead(p1, p2) == (1 - p1) + 2 * (1 - p2)

\* The arming test without its test of the arm flag
ArmNowAlways(arm, readVal, lastVal) == readVal # lastVal

(***************************************************************************)
(* The conditions of the debounce code, shared by the four discrete        *)
(* channels, which repeat the same statements.                             *)
(***************************************************************************)
\* if (!xArmFlag && xReadVal != xLastVal): arm the debounce timer
ArmNow(arm, readVal, lastVal) == ~arm /\ readVal # lastVal

\* The expiry test with >= for >
DebounceExpiredEarly(arm, t, tmr, period) == arm /\ Elapsed(t, tmr) >= period

\* if (xArmFlag && millis() - xBounceTmr > period): the debounce time expired
DebounceExpired(arm, t, tmr, period) == arm /\ Elapsed(t, tmr) > period

\* The expiry branch without its second look at the input
StillChangedUnchecked(readVal, lastVal) == TRUE

\* if (xReadVal != xLastVal): the change is still there at expiry
StillChanged(readVal, lastVal) == readVal # lastVal

(***************************************************************************)
(* Potentiometers (one block per potentiometer, the same three times)      *)
(***************************************************************************)
\* The potentiometer block without its test of the timer
PotBlockUntimed(setter, lastVal, tmr, raw, t) ==
    LET potReadVal == correctTaper(raw)
        update == potReadVal # lastVal
    IN [lastVal |-> IF update THEN potReadVal ELSE lastVal,
        calls   |-> IF update THEN <<SetAxis(setter, potReadVal)>> ELSE <<>>]

PotBlock(setter, lastVal, tmr, raw, t) ==
    LET potReadVal == correctTaper(raw)
        update == potReadVal # lastVal /\ Elapsed(t, tmr) > potBouncePeriod
    IN [lastVal |-> IF update THEN potReadVal ELSE lastVal,
        calls   |-> IF update THEN <<SetAxis(setter, potReadVal)>> ELSE <<>>]

(***************************************************************************)
(* Rotary encoder                                                          *)
(***************************************************************************)
\* byte encDirection = (encReadVal << 2) | encLastVal
EncDirection(encReadVal, lastVal) ==
    BitOr(ShiftLeftByte(encReadVal, 2), lastVal, 8)

\* The direction test with 0b1101 mistyped as 0b1100
EncClassifyMistyped(encDirection) ==
    IF encDirection \in {2, 4, 12, 11} THEN "up"
    ELSE IF encDirection \in {8, 14, 7, 1} THEN "down"
    ELSE "err"

\* The direction test with its two tables exchanged
EncClassifySwapped(encDirection) ==
    IF encDirection \in {8, 14, 7, 1} THEN "up"
    ELSE IF encDirection \in {2, 4, 13, 11} THEN "down"
    ELSE "err"

\* The two tables of the direction test
EncClassify(encDirection) ==
    IF encDirection \in {2, 4, 13, 11} THEN "up"
    ELSE IF encDirection \in {8, 14, 7, 1} THEN "down"
    ELSE "err"

\* The press without its test of encButtonFlag
EncSendIdleUnchecked(flag) == TRUE

\* The press allowed again as soon as the button is released
EncSendIdleInGap(flag) == flag \in {0, 9}

\* The press testing only for an up button send, as encDown() of the
\* earlier sketches does
EncSendIdleNotUp(flag) == flag # 1

\* if (!encButtonFlag): no Joystick button send is active
EncSendIdle(flag) == flag = 0

\* The release test with the potentiometer period for the button period
EncButtonExpiredLate(flag, t, tmr) ==
    flag # 0 /\ Elapsed(t, tmr) > potBouncePeriod

\* The loop without its release of the encoder buttons
EncButtonExpiredNever(flag, t, tmr) == FALSE

\* if (encButtonFlag && millis() - encButtonTmr > encButtonPeriod)
EncButtonExpired(flag, t, tmr) ==
    flag # 0 /\ Elapsed(t, tmr) > encButtonPeriod

\* The release going straight back to idle
EncFlagReleasedIdle(flag) == 0

\* encButtonFlag after the release branch: 9 after a button was released,
\* 0 after the release state (and after any other value)
EncFlagReleased(flag) == IF flag = 1 \/ flag = 2 THEN 9 ELSE 0

EncoderBlock(arm, bounceTmr, lastVal, flag, buttonTmr, encReadVal, t) ==
    LET \* arm the debounce timer
        armNow  == ArmNow(arm, encReadVal, lastVal)
        arm1    == arm \/ armNow
        tmr1    == IF armNow THEN t ELSE bounceTmr
        \* debounce expiry
        expired == DebounceExpired(arm1, t, tmr1, encBouncePeriod)
        changed == expired /\ StillChanged(encReadVal, lastVal)
        dir     == EncClassify(EncDirection(encReadVal, lastVal))
        press   == changed /\ dir # "err" /\ EncSendIdle(flag)
        flag2   == IF press THEN (IF dir = "up" THEN 1 ELSE 2) ELSE flag
        btmr2   == IF press THEN t ELSE buttonTmr
        calls2  == IF press
                   THEN <<SetButton(IF dir = "up" THEN joyEncUp ELSE joyEncDn, 1)>>
                   ELSE <<>>
        \* Joystick button release
        release == EncButtonExpired(flag2, t, btmr2)
        flag3   == IF release THEN EncFlagReleased(flag2) ELSE flag2
        btmr3   == IF release /\ (flag2 = 1 \/ flag2 = 2) THEN t ELSE btmr2
        calls3  == IF release /\ flag2 = 1 THEN <<SetButton(joyEncUp, 0)>>
                   ELSE IF release /\ flag2 = 2 THEN <<SetButton(joyEncDn, 0)>>
                   ELSE <<>>
    IN [arm       |-> IF expired THEN FALSE ELSE arm1,
        bounceTmr |-> tmr1,
        lastVal   |-> IF changed THEN encReadVal ELSE lastVal,
        flag      |-> flag3,
        buttonTmr |-> btmr3,
        tick      |-> IF changed THEN dir ELSE "none",
        calls     |-> calls2 \o calls3]

(***************************************************************************)
(* Reverse thrust button, gear switch, flap switch                         *)
(***************************************************************************)
\* !x of a byte
Not(x) == IF x = 0 THEN 1 ELSE 0

RevCalls(revReadVal) == <<SetButton(joyRev, Not(revReadVal))>>

\* The gear switch also driving the reverse thrust button
GearCallsOnRev(gearReadVal) ==
    IF Not(gearReadVal) = 1
    THEN <<SetButton(joyRev, 0), SetButton(joyGearUp, 1)>>
    ELSE <<SetButton(joyGearUp, 0), SetButton(joyRev, 1)>>

\* The gear switch pressing the new button before it clears the other
GearCallsSetFirst(gearReadVal) ==
    IF Not(gearReadVal) = 1
    THEN <<SetButton(joyGearUp, 1), SetButton(joyGearDn, 0)>>
    ELSE <<SetButton(joyGearDn, 1), SetButton(joyGearUp, 0)>>

GearCalls(gearReadVal) ==
    IF Not(gearReadVal) = 1
    THEN <<SetButton(joyGearDn, 0), SetButton(joyGearUp, 1)>>
    ELSE <<SetButton(joyGearUp, 0), SetButton(joyGearDn, 1)>>

\* The flap switch pressing the new button before it clears the others
FlapCallsSetFirst(flapReadVal) ==
    CASE flapReadVal = 2 ->
           <<SetButton(joyFlapUp, 1), SetButton(joyFlapTo, 0), SetButton(joyFlapLg, 0)>>
      [] flapReadVal = 0 ->
           <<SetButton(joyFlapTo, 1), SetButton(joyFlapUp, 0), SetButton(joyFlapLg, 0)>>
      [] flapReadVal = 1 ->
           <<SetButton(joyFlapLg, 1), SetButton(joyFlapUp, 0), SetButton(joyFlapTo, 0)>>
      [] OTHER ->
           <<SetButton(joyFlapUp, 0), SetButton(joyFlapTo, 0), SetButton(joyFlapLg, 0)>>

FlapCalls(flapReadVal) ==
    CASE flapReadVal = 2 ->
           <<SetButton(joyFlapTo, 0), SetButton(joyFlapLg, 0), SetButton(joyFlapUp, 1)>>
      [] flapReadVal = 0 ->
           <<SetButton(joyFlapUp, 0), SetButton(joyFlapLg, 0), SetButton(joyFlapTo, 1)>>
      [] flapReadVal = 1 ->
           <<SetButton(joyFlapUp, 0), SetButton(joyFlapTo, 0), SetButton(joyFlapLg, 1)>>
      [] OTHER ->
           <<SetButton(joyFlapUp, 0), SetButton(joyFlapTo, 0), SetButton(joyFlapLg, 0)>>

RevBlock(arm, bounceTmr, lastVal, revReadVal, t) ==
    LET armNow  == ArmNow(arm, revReadVal, lastVal)
        arm1    == arm \/ armNow
        tmr1    == IF armNow THEN t ELSE bounceTmr
        expired == DebounceExpired(arm1, t, tmr1, butBouncePeriod)
        changed == expired /\ StillChanged(revReadVal, lastVal)
    IN [arm       |-> IF expired THEN FALSE ELSE arm1,
        bounceTmr |-> tmr1,
        lastVal   |-> IF changed THEN revReadVal ELSE lastVal,
        calls     |-> IF changed THEN RevCalls(revReadVal) ELSE <<>>]

GearBlock(arm, bounceTmr, lastVal, gearReadVal, t) ==
    LET armNow  == ArmNow(arm, gearReadVal, lastVal)
        arm1    == arm \/ armNow
        tmr1    == IF armNow THEN t ELSE bounceTmr
        expired == DebounceExpired(arm1, t, tmr1, butBouncePeriod)
        changed == expired /\ StillChanged(gearReadVal, lastVal)
    IN [arm       |-> IF expired THEN FALSE ELSE arm1,
        bounceTmr |-> tmr1,
        lastVal   |-> IF changed THEN gearReadVal ELSE lastVal,
        calls     |-> IF changed THEN GearCalls(gearReadVal) ELSE <<>>]

FlapBlock(arm, bounceTmr, lastVal, flapReadVal, t) ==
    LET armNow  == ArmNow(arm, flapReadVal, lastVal)
        arm1    == arm \/ armNow
        tmr1    == IF armNow THEN t ELSE bounceTmr
        expired == DebounceExpired(arm1, t, tmr1, butBouncePeriod)
        changed == expired /\ StillChanged(flapReadVal, lastVal)
    IN [arm       |-> IF expired THEN FALSE ELSE arm1,
        bounceTmr |-> tmr1,
        lastVal   |-> IF changed THEN flapReadVal ELSE lastVal,
        calls     |-> IF changed THEN FlapCalls(flapReadVal) ELSE <<>>]

(***************************************************************************)
(* The focus channel, as the environment's bookkeeping sees it             *)
(***************************************************************************)
Sample(f, p) ==
    CASE f = "enc"  -> EncRead(p.encPort)
      [] f = "rev"  -> p.rev
      [] f = "gear" -> p.gear
      [] f = "flap" -> FlapRead(p.flap1, p.flap2)
      [] f = "pot1" -> correctTaper(p.pot1)
      [] f = "pot2" -> correctTaper(p.pot2)
      [] f = "pot3" -> correctTaper(p.pot3)

ChPeriod(f) ==
    IF f = "enc" THEN encBouncePeriod
    ELSE IF f \in Pots THEN potBouncePeriod
    ELSE butBouncePeriod

ChSetter(f) ==
    CASE f = "pot1" -> "setThrottle"
      [] f = "pot2" -> "setRxAxis"
      [] f = "pot3" -> "setRyAxis"
      [] OTHER      -> "setButton"

ChButtons(f) ==
    CASE f = "enc"  -> {joyEncUp, joyEncDn}
      [] f = "rev"  -> {joyRev}
      [] f = "gear" -> {joyGearUp, joyGearDn}
      [] f = "flap" -> {joyFlapUp, joyFlapTo, joyFlapLg}
      [] OTHER      -> {}

ChArm(f) ==
    CASE f = "enc"  -> encArmFlag
      [] f = "rev"  -> revArmFlag
      [] f = "gear" -> gearArmFlag
      [] f = "flap" -> flapArmFlag
      [] OTHER      -> FALSE

ChLast(f) ==
    CASE f = "enc"  -> encLastVal
      [] f = "rev"  -> revLastVal
      [] f = "gear" -> gearLastVal
      [] f = "flap" -> flapLastVal
      [] f = "pot1" -> potLastVal1
      [] f = "pot2" -> potLastVal2
      [] f = "pot3" -> potLastVal3

ChTmr(f) ==
    CASE f = "enc"  -> encBounceTmr
      [] f = "rev"  -> revBounceTmr
      [] f = "gear" -> gearBounceTmr
      [] f = "flap" -> flapBounceTmr
      [] f = "pot1" -> pot1Tmr
      [] f = "pot2" -> pot2Tmr
      [] f = "pot3" -> pot3Tmr

\* The calls of cs that set a button of channel f, or the axis of
\* potentiometer f; for the encoder the presses only, its releases being
\* the pulse generator's
ChCalls(f, cs) ==
    SelectSeq(cs, LAMBDA c : /\ c.fn = ChSetter(f)
                             /\ (f \notin Pots => c.id \in ChButtons(f))
                             /\ (f = "enc" => c.val = 1))

\* What one iteration did to a channel, from its flag and value before
\* (arm0, last0) and after (arm1, last1)
ChannelEvent(arm0, last0, arm1, last1) ==
    IF last1 # last0 THEN "commit"
    ELSE IF ~arm0 /\ arm1 THEN "arm"
    ELSE IF arm0 /\ ~arm1 THEN "reject"
    ELSE "idle"

Min(a, b) == IF a < b THEN a ELSE b

\* Most poll times kept in potLog
MaxPotPolls == 4

\* The log of the focus potentiometer after an iteration at time t that
\* read raw and made the calls cs: the number of setter calls, the time of
\* the latest, the shortest time between two consecutive ones, the raw
\* values read and the times of the first polls
PotLogAfter(lg, f, raw, cs, t) ==
    LET set == ChCalls(f, cs) # <<>>
    IN [n     |-> IF set THEN Min(lg.n + 1, 2) ELSE lg.n,
        at    |-> IF set THEN t ELSE lg.at,
        gap   |-> IF set /\ lg.at # -1 THEN Min(lg.gap, Elapsed(t, lg.at))
                  ELSE lg.gap,
        raws  |-> lg.raws \cup {raw},
        times |-> IF Len(lg.times) < MaxPotPolls THEN Append(lg.times, t)
                  ELSE lg.times]

RECURSIVE PulseAfter(_, _, _)
\* The pulse record after the encoder's calls cs of an iteration at time t
PulseAfter(pl, cs, t) ==
    IF cs = <<>> THEN pl
    ELSE LET c == Head(cs)
             down == pl.btn = c.id /\ pl.releases = 0
             nxt == IF c.val = 1
                    THEN IF down
                         THEN [pl EXCEPT !.presses = Min(pl.presses + 1, 2)]
                         ELSE [btn |-> c.id, at |-> t, presses |-> 1,
                               releases |-> 0, extra |-> 0,
                               relAt |-> pl.relAt, lost |-> pl.lost]
                    ELSE IF pl.btn = c.id
                         THEN [pl EXCEPT !.releases = Min(pl.releases + 1, 2),
                                         !.relAt = t, !.lost = FALSE]
                         ELSE pl
         IN PulseAfter(nxt, Tail(cs), t)

(***************************************************************************)
(* loop(): one iteration, dt after the previous one, reading the pins p    *)
(***************************************************************************)
Poll(dt, p) ==
    \E t \in {(now + dt) % TimerModulus} :
    \E pot1 \in {PotBlock("setThrottle", potLastVal1, pot1Tmr, p.pot1, t)},
       pot2 \in {PotBlock("setRxAxis", potLastVal2, pot2Tmr, p.pot2, t)},
       pot3 \in {PotBlock("setRyAxis", potLastVal3, pot3Tmr, p.pot3, t)},
       enc  \in {EncoderBlock(encArmFlag, encBounceTmr, encLastVal,
                              encButtonFlag, encButtonTmr, EncRead(p.encPort), t)},
       rev  \in {RevBlock(revArmFlag, revBounceTmr, revLastVal, p.rev, t)},
       gear \in {GearBlock(gearArmFlag, gearBounceTmr, gearLastVal, p.gear, t)},
       flap \in {FlapBlock(flapArmFlag, flapBounceTmr, flapLastVal,
                           FlapRead(p.flap1, p.flap2), t)} :
    \E cs \in {pot1.calls \o pot2.calls \o pot3.calls \o enc.calls
               \o rev.calls \o gear.calls \o flap.calls},
       blk \in {CASE focus = "enc"  -> [arm |-> enc.arm, lastVal |-> enc.lastVal]
                  [] focus = "rev"  -> [arm |-> rev.arm, lastVal |-> rev.lastVal]
                  [] focus = "gear" -> [arm |-> gear.arm, lastVal |-> gear.lastVal]
                  [] focus = "flap" -> [arm |-> flap.arm, lastVal |-> flap.lastVal]
                  [] focus = "pot1" -> [arm |-> FALSE, lastVal |-> pot1.lastVal]
                  [] focus = "pot2" -> [arm |-> FALSE, lastVal |-> pot2.lastVal]
                  [] focus = "pot3" -> [arm |-> FALSE, lastVal |-> pot3.lastVal]},
       same \in {event # "boot" /\ Sample(focus, p) = Sample(focus, pins)} :
    \E ev \in {ChannelEvent(ChArm(focus), ChLast(focus), blk.arm, blk.lastVal)} :
       /\ now' = t
       /\ pins' = p
       /\ UNCHANGED <<pot1Tmr, pot2Tmr, pot3Tmr>>
       /\ potLastVal1' = pot1.lastVal
       /\ potLastVal2' = pot2.lastVal
       /\ potLastVal3' = pot3.lastVal
       /\ encArmFlag' = enc.arm
       /\ encBounceTmr' = enc.bounceTmr
       /\ encLastVal' = enc.lastVal
       /\ encButtonFlag' = enc.flag
       /\ encButtonTmr' = enc.buttonTmr
       /\ revArmFlag' = rev.arm
       /\ revBounceTmr' = rev.bounceTmr
       /\ revLastVal' = rev.lastVal
       /\ gearArmFlag' = gear.arm
       /\ gearBounceTmr' = gear.bounceTmr
       /\ gearLastVal' = gear.lastVal
       /\ flapArmFlag' = flap.arm
       /\ flapBounceTmr' = flap.bounceTmr
       /\ flapLastVal' = flap.lastVal
       /\ calls' = cs
       /\ joy' = (IF cs = <<>> THEN joy ELSE ApplyButtons(joy, cs))
       /\ axes' = (IF cs = <<>> THEN axes ELSE ApplyAxes(axes, cs))
       /\ tick' = enc.tick
       /\ event' = ev
       /\ held' = (IF \/ event = "boot"
                      \/ Sample(focus, p) = ChLast(focus)
                      \/ Sample(focus, pins) = ChLast(focus)
                   THEN 0
                   ELSE Min(held + dt, ChPeriod(focus) + 1))
       /\ run' = [from    |-> IF same THEN run.from ELSE ChLast(focus),
                  fresh   |-> IF same THEN run.fresh ELSE ev = "arm",
                  commits |-> Min((IF same THEN run.commits ELSE 0)
                                  + (IF ev = "commit" THEN 1 ELSE 0), 2),
                  updates |-> Min((IF same THEN run.updates ELSE 0)
                                  + (IF ChCalls(focus, cs) # <<>> THEN 1 ELSE 0), 2)]
       /\ pulse' = PulseAfter(
                      IF /\ pulse.btn # -1 /\ pulse.releases = 0
                         /\ enc.tick \in {"up", "down"}
                      THEN [pulse EXCEPT !.extra = Min(@ + 1, 3)]
                      ELSE IF encButtonFlag = 9 /\ enc.tick \in {"up", "down"}
                      THEN [pulse EXCEPT !.lost = TRUE]
                      ELSE pulse,
                      enc.calls, t)
       /\ potLog' = (IF focus \in Pots
                     THEN PotLogAfter(potLog, focus,
                                      CASE focus = "pot1" -> p.pot1
                                        [] focus = "pot2" -> p.pot2
                                        [] focus = "pot3" -> p.pot3,
                                      cs, t)
                     ELSE potLog)
       /\ clock' = [t       |-> clock.t + dt,
                    armAt   |-> IF ~ChArm(focus) /\ blk.arm THEN clock.t + dt
                                ELSE clock.armAt,
                    pressAt |-> IF enc.flag \in {1, 2} /\ encButtonFlag = 0
                                THEN clock.t + dt ELSE clock.pressAt,
                    crossed |-> \/ clock.crossed
                                \/ ev = "commit" /\ ChArm(focus) /\ ChTmr(focus) > t]
       /\ UNCHANGED <<focus, legacyVars>>

(***************************************************************************)
(* Start-up: the globals as initialised, the Joystick at rest              *)
(***************************************************************************)
RestPins == [encPort |-> 0, rev |-> 1, gear |-> 1, flap1 |-> 1, flap2 |-> 1,
             pot1 |-> 0, pot2 |-> 0, pot3 |-> 0]

\* The raw readings of a potentiometer that moves
PotLevels == {10, 20, 600}

\* The pins when only input f moves
PinsFor(f) ==
    CASE f = "enc"  -> {[RestPins EXCEPT !.encPort = c * (2 ^ encShift)] : c \in 0 .. 3}
      [] f = "rev"  -> {[RestPins EXCEPT !.rev = v] : v \in 0 .. 1}
      [] f = "gear" -> {[RestPins EXCEPT !.gear = v] : v \in 0 .. 1}
      [] f = "flap" -> {[RestPins EXCEPT !.flap1 = a, !.flap2 = b] :
                           a \in 0 .. 1, b \in 0 .. 1}
      [] f = "pot1" -> {[RestPins EXCEPT !.pot1 = r] : r \in PotLevels}
      [] f = "pot2" -> {[RestPins EXCEPT !.pot2 = r] : r \in PotLevels}
      [] f = "pot3" -> {[RestPins EXCEPT !.pot3 = r] : r \in PotLevels}

\* The globals starting at what the inputs read at rest
InitProgramAtRest ==
    /\ pot1Tmr = 0 /\ pot2Tmr = 0 /\ pot3Tmr = 0
    /\ encBounceTmr = 0 /\ encButtonTmr = 0
    /\ revBounceTmr = 0 /\ gearBounceTmr = 0 /\ flapBounceTmr = 0
    /\ potLastVal1 = 0 /\ potLastVal2 = 0 /\ potLastVal3 = 0
    /\ encArmFlag = FALSE /\ encButtonFlag = 0 /\ encLastVal = 0
    /\ revArmFlag = FALSE /\ gearArmFlag = FALSE /\ flapArmFlag = FALSE
    /\ revLastVal = 1 /\ gearLastVal = 1 /\ flapLastVal = 0
    /\ joy = [b \in Buttons |-> 0]
    /\ axes = [setThrottle |-> 0, setRxAxis |-> 0, setRyAxis |-> 0]
    /\ calls = <<>>

InitProgram ==
    /\ pot1Tmr = 0 /\ pot2Tmr = 0 /\ pot3Tmr = 0
    /\ encBounceTmr = 0 /\ encButtonTmr = 0
    /\ revBounceTmr = 0 /\ gearBounceTmr = 0 /\ flapBounceTmr = 0
    /\ potLastVal1 = PotUnset /\ potLastVal2 = PotUnset /\ potLastVal3 = PotUnset
    /\ encArmFlag = FALSE /\ encButtonFlag = 0 /\ encLastVal = ByteUnset
    /\ revArmFlag = FALSE /\ gearArmFlag = FALSE /\ flapArmFlag = FALSE
    /\ revLastVal = ByteUnset /\ gearLastVal = ByteUnset /\ flapLastVal = ByteUnset
    /\ joy = [b \in Buttons |-> 0]
    /\ axes = [setThrottle |-> 0, setRxAxis |-> 0, setRyAxis |-> 0]
    /\ calls = <<>>

\* The second run starts as the first does
InitTwin ==
    [pot1Tmr |-> 0, pot2Tmr |-> 0, pot3Tmr |-> 0,
     potLastVal1 |-> PotUnset, potLastVal2 |-> PotUnset, potLastVal3 |-> PotUnset,
     encArmFlag |-> FALSE, encBounceTmr |-> 0, encLastVal |-> ByteUnset,
     encButtonFlag |-> 0, encButtonTmr |-> 0,
     revArmFlag |-> FALSE, revBounceTmr |-> 0, revLastVal |-> ByteUnset,
     gearArmFlag |-> FALSE, gearBounceTmr |-> 0, gearLastVal |-> ByteUnset,
     flapArmFlag |-> FALSE, flapBounceTmr |-> 0, flapLastVal |-> ByteUnset,
     joy |-> [b \in Buttons |-> 0],
     axes |-> [setThrottle |-> 0, setRxAxis |-> 0, setRyAxis |-> 0],
     calls |-> <<>>]

InitEnv(F) ==
    /\ now = 0
    /\ twin = InitTwin
    /\ pins = RestPins
    /\ focus \in F
    /\ event = "boot"
    /\ tick = "none"
    /\ held = 0
    /\ run = [from |-> ByteUnset, fresh |-> FALSE, commits |-> 0, updates |-> 0]
    /\ pulse = [btn |-> -1, at |-> 0, presses |-> 0, releases |-> 0, extra |-> 0,
                relAt |-> -1, lost |-> FALSE]
    /\ clock = [t |-> 0, armAt |-> 0, pressAt |-> 0, crossed |-> FALSE]
    /\ potLog = [n |-> 0, at |-> -1, gap |-> potBouncePeriod + 1,
                 raws |-> {}, times |-> <<>>]
    /\ steps = <<>>
    /\ codeSince = 0
    /\ ticks = <<>>

InitTaperIdle ==
    /\ taperIn = <<0, 0>>
    /\ taperOut = <<>>

\* Width of debugEncClicks explored
ClicksBits == 1

\* The globals of the earlier sketches as initialised
InitLegacy(S) ==
    /\ sketch \in S
    /\ legacyNow = 0
    /\ legacyPotLastVal = <<0, 0, 0>>
    /\ encLastValUp = 0 /\ encLastValDn = 0
    /\ encTriggerUp = FALSE /\ encTriggerDn = FALSE
    /\ encUpTimer = 0 /\ encDnTimer = 0
    /\ debugEncClicks = 0
    /\ legacyJoy = [b \in {joyEncUp, joyEncDn} |-> 0]
    /\ legacyCalls = <<>>
    /\ legacyLog = [dnAt |-> 0, dnPresses |-> 0, skipped |-> FALSE]

(***************************************************************************)
(* Spec: the debounce of one discrete input, the environment free to       *)
(* change it at every poll                                                 *)
(***************************************************************************)
Init == InitProgram /\ InitEnv(Channels) /\ InitTaperIdle
    /\ InitLegacy({"part_002"})

Gaps(f) == IF f = "enc" THEN {0, 1} ELSE {0, PollGapBut, PollGapBut + 1}

MaxTime(f) == IF f = "enc" THEN MaxTimeEnc ELSE MaxTimeBut

Next ==
    \E dt \in Gaps(focus), p \in PinsFor(focus) :
        /\ now + dt <= MaxTime(focus)
        /\ Poll(dt, p)
        /\ UNCHANGED <<logVars, taperVars, twin>>

Spec == Init /\ [][Next]_vars

(***************************************************************************)
(* SpecTaper: correctTaper on a pair of raw readings, applied alone and    *)
(* by a loop iteration that reads them from the first two potentiometers   *)
(***************************************************************************)
RawLevels == 0 .. AnalogMax

InitTaper ==
    /\ InitProgram /\ InitEnv({"rev"}) /\ InitLegacy({"part_002"})
    /\ taperIn \in {pr \in RawLevels \X RawLevels :
                        \/ pr[2] - pr[1] \in 0 .. TaperSpan
                        \/ pr[2] = AnalogMax - pr[1]}
    /\ taperOut = <<>>

ApplyTaper ==
    /\ taperOut = <<>>
    /\ taperOut' = <<correctTaper(taperIn[1]), correctTaper(taperIn[2])>>
    /\ UNCHANGED <<progVars, hidVars, envVars, taperIn, legacyVars, twin>>

\* The first iteration finds the potentiometer window already over
PollTaper ==
    /\ event = "boot"
    /\ Poll(potBouncePeriod + 1,
            [RestPins EXCEPT !.pot1 = taperIn[1], !.pot2 = taperIn[2]])
    /\ UNCHANGED <<logVars, taperVars, twin>>

NextTaper == ApplyTaper \/ PollTaper

SpecTaper == InitTaper /\ [][NextTaper]_vars

AxisCalls == SelectSeq(calls, LAMBDA c : c.fn # "setButton")

\* C2: correctTaper is non-decreasing: a <= b implies
\* correctTaper(a) <= correctTaper(b), also across the branch boundaries.
TaperMonotone ==
    /\ (taperOut # <<>> /\ taperIn[1] <= taperIn[2]) => taperOut[1] <= taperOut[2]
    /\ (event # "boot" /\ taperIn[1] <= taperIn[2])
          => axes.setThrottle <= axes.setRxAxis

\* C3: correctTaper(raw) lies in 0..1023, correctTaper(0) = 0 and
\* correctTaper(1023) = 1023, and every value a loop iteration passes to an
\* axis setter lies in 0..1023.
TaperInRange ==
    /\ taperOut # <<>> =>
          /\ \A i \in 1 .. 2 : taperOut[i] \in 0 .. AnalogMax
          /\ \A i \in 1 .. 2 : taperIn[i] = 0 => taperOut[i] = 0
          /\ \A i \in 1 .. 2 : taperIn[i] = AnalogMax => taperOut[i] = AnalogMax
    /\ \A i \in 1 .. Len(AxisCalls) : AxisCalls[i].val \in 0 .. AnalogMax
    /\ \A a \in DOMAIN axes : axes[a] \in 0 .. AnalogMax

\* Both ends of the range have been mapped, alone and through the loop
TaperInRangeWitness ==
    /\ taperIn = <<0, AnalogMax>>
    /\ taperOut = <<0, AnalogMax>>
    /\ axes.setRxAxis = AnalogMax
    /\ Len(AxisCalls) = 3

\* C4 as claimed: correctTaper(raw) + correctTaper(1023 - raw) = 1023 for
\* every raw in 0..1023.
TaperSymmetric ==
    (taperOut # <<>> /\ taperIn[2] = AnalogMax - taperIn[1])
        => taperOut[1] + taperOut[2] = AnalogMax

\* The raw values whose mirror image the top branch saturates
TaperSaturated == {1, 2, AnalogMax - 2, AnalogMax - 1}

\* C4 as amended: correctTaper(raw) + correctTaper(1023 - raw) = 1023 for
\* every raw in 0..1023 other than 1, 2, 1021 and 1022.
TaperSymmetricUnsaturated ==
    (/\ taperOut # <<>>
     /\ taperIn[2] = AnalogMax - taperIn[1]
     /\ taperIn[1] \notin TaperSaturated)
        => taperOut[1] + taperOut[2] = AnalogMax

\* A pair across the middle boundary has been mapped
TaperSymmetricWitness ==
    /\ taperIn = <<511, 512>>
    /\ taperOut = <<512, 511>>

(***************************************************************************)
(* Claims about the debounce (Spec)                                        *)
(***************************************************************************)
FocusSample == Sample(focus, pins)
FocusElapsed == Elapsed(now, ChTmr(focus))

\* C1: a channel's last stable value changes only if the samples of the
\* channel have differed from it for longer than the debounce period: no
\* poll of the last ChPeriod time units read the last stable value.
CommitOnlyPersisted ==
    event = "commit" => held > ChPeriod(focus)

\* C5: while a channel is armed, a poll before the window expires changes
\* nothing, and the poll at which the window has expired, reading the stable
\* value V again, commits nothing: the last stable value stays V, no button
\* of the channel is set, and the channel is disarmed.
TransientRejected ==
    [][ChArm(focus) =>
          /\ (Elapsed(now', ChTmr(focus)) <= ChPeriod(focus)) =>
                /\ ChArm(focus)'
                /\ ChLast(focus)' = ChLast(focus)
                /\ ChCalls(focus, calls') = <<>>
          /\ (/\ Elapsed(now', ChTmr(focus)) > ChPeriod(focus)
              /\ Sample(focus, pins') = ChLast(focus)) =>
                /\ ~ChArm(focus)'
                /\ ChLast(focus)' = ChLast(focus)
                /\ ChCalls(focus, calls') = <<>>
                /\ event' = "reject"]_vars

\* A transient on a committed value has just been rejected: the sample was
\* back at the stable value when the window expired
TransientRejectedWitness ==
    /\ event = "reject"
    /\ ChLast(focus) # ByteUnset
    /\ FocusSample = ChLast(focus)
    /\ held <= ChPeriod(focus)
    /\ ~ChArm(focus)

GrayOrder == <<0, 1, 3, 2>>
GrayIndex(c) == CHOOSE i \in 1 .. 4 : GrayOrder[i] = c
GrayDirection(old, new) ==
    IF old \notin 0 .. 3 \/ new \notin 0 .. 3 THEN "err"
    ELSE IF GrayIndex(new) = (GrayIndex(old) % 4) + 1 THEN "up"
    ELSE IF GrayIndex(old) = (GrayIndex(new) % 4) + 1 THEN "down"
    ELSE "err"

EncPresses(cs) ==
    SelectSeq(cs, LAMBDA c : c.fn = "setButton" /\ c.id \in {joyEncUp, joyEncDn}
                             /\ c.val = 1)

\* C8: a committed encoder change that is no one-bit step (a skipped state,
\* or the first commit from 255) presses no button and starts no pulse, yet
\* sets encLastVal to the new code and disarms; every commit is decoded
\* against the code committed before it, so the step after a skipped state
\* gets its true direction.
SkippedStateIgnored ==
    [][encLastVal' # encLastVal =>
          /\ encLastVal' = EncRead(pins'.encPort)
          /\ ~encArmFlag'
          /\ tick' = GrayDirection(encLastVal, encLastVal')
          /\ tick' = "err" =>
                /\ EncPresses(calls') = <<>>
                /\ encButtonFlag' \in {encButtonFlag, 9, 0}
                /\ encButtonFlag' \in {1, 2} => encButtonTmr' = encButtonTmr
          /\ (tick' # "err" /\ encButtonFlag = 0) =>
                /\ EncPresses(calls') =
                      <<SetButton(IF tick' = "up" THEN joyEncUp ELSE joyEncDn, 1)>>
                /\ encButtonFlag' = (IF tick' = "up" THEN 1 ELSE 2)]_vars

\* The skipped state 00 -> 11 has just been committed without a press
SkippedStateIgnoredWitness ==
    /\ focus = "enc"
    /\ event = "commit"
    /\ run.from = 0
    /\ encLastVal = 3
    /\ tick = "err"
    /\ calls = <<>>
    /\ encButtonFlag = 0
    /\ ~encArmFlag

(***************************************************************************)
(* SpecRotate: the encoder at rest at code 00 is turned one Gray-code step *)
(* at a time, up or down, each code read over a span of polls longer than  *)
(* the debounce period before the next step                                *)
(***************************************************************************)
\* Steps the environment turns the encoder
MaxSteps == 4
\* Last clock value explored
MaxTimeRotate == 58

InitRotate == InitProgram /\ InitEnv({"enc"}) /\ InitTaperIdle
    /\ InitLegacy({"part_002"})

\* The code one step from c in direction d
GrayStep(c, d) ==
    GrayOrder[((GrayIndex(c) - 1 + (IF d = "up" THEN 1 ELSE 3)) % 4) + 1]

EncPins(c) == [RestPins EXCEPT !.encPort = c * (2 ^ encShift)]

\* ticks after an iteration: the direction decoded by a commit, but for the
\* start-up commit of the rest position
TicksAfter(before) ==
    IF event' = "commit" /\ before # ByteUnset
    THEN Append(ticks, tick') ELSE ticks

\* A poll that finds the encoder where it was
Dwell ==
    \E dt \in {0, 1} :
        /\ now + dt <= MaxTimeRotate
        /\ Poll(dt, EncPins(EncRead(pins.encPort)))
        /\ codeSince' = (IF event = "boot" THEN now' ELSE codeSince)
        /\ ticks' = TicksAfter(encLastVal)
        /\ UNCHANGED <<steps, taperVars, twin>>

\* A poll that finds the encoder one step further
Turn ==
    \E dt \in {0, 1}, d \in {"up", "down"} :
        /\ now + dt <= MaxTimeRotate
        /\ event # "boot"
        /\ Len(steps) < MaxSteps
        /\ Elapsed(now, codeSince) > encBouncePeriod
        /\ Poll(dt, EncPins(GrayStep(EncRead(pins.encPort), d)))
        /\ codeSince' = now'
        /\ steps' = Append(steps, d)
        /\ ticks' = TicksAfter(encLastVal)
        /\ UNCHANGED <<taperVars, twin>>

NextRotate == Dwell \/ Turn

SpecRotate == InitRotate /\ [][NextRotate]_vars

Front(q) == SubSeq(q, 1, Len(q) - 1)

\* C7: from rest at code 00, the forward sequence 00->01->11->10->00 with
\* each code held longer than the debounce period is decoded as four Up
\* ticks in order and no Down tick, the reverse sequence as four Down ticks
\* and no Up tick: the ticks decoded are the steps turned, one per step, the
\* latest step decoded as soon as its code has been held for the period.
RotationDecoded ==
    ticks = IF steps = <<>> \/ Elapsed(now, codeSince) > encBouncePeriod
            THEN steps ELSE Front(steps)

\* The forward sequence has been turned and decoded, back at code 00
RotationDecodedWitness ==
    /\ steps = <<"up", "up", "up", "up">>
    /\ ticks = <<"up", "up", "up", "up">>
    /\ encLastVal = 0

(***************************************************************************)
(* SpecPulse: the encoder free to change at every poll, the polls far      *)
(* enough apart for the run to cover the press and the release of a        *)
(* Joystick button                                                         *)
(***************************************************************************)
\* Gap between two polls (the next gap is one longer, and 0 repeats a poll)
PollGapPulse == 33
\* Last clock value explored
MaxTimePulse == 205

InitPulse == InitProgram /\ InitEnv({"enc"}) /\ InitTaperIdle
    /\ InitLegacy({"part_002"})

NextPulse ==
    \E dt \in {0, PollGapPulse, PollGapPulse + 1}, p \in PinsFor("enc") :
        /\ now + dt <= MaxTimePulse
        /\ Poll(dt, p)
        /\ UNCHANGED <<logVars, taperVars, twin>>

SpecPulse == InitPulse /\ [][NextPulse]_vars

PulseElapsed == Elapsed(now, pulse.at)
OtherEncButton(b) == IF b = joyEncUp THEN joyEncDn ELSE joyEncUp

\* C9: an encoder button pressed at t0 is still pressed after every poll up
\* to t0 + encButtonPeriod, is released by exactly one setButton(.., 0), at
\* the first poll after t0 + encButtonPeriod, and a tick committed while it
\* is pressed issues no press and leaves encButtonTmr at t0.
PulseHeldThenReleased ==
    pulse.btn # -1 =>
        /\ pulse.presses = 1
        /\ joy[OtherEncButton(pulse.btn)] = 0
        /\ PulseElapsed <= encButtonPeriod =>
              /\ joy[pulse.btn] = 1
              /\ pulse.releases = 0
              /\ encButtonTmr = pulse.at
              /\ encButtonFlag = (IF pulse.btn = joyEncUp THEN 1 ELSE 2)
        /\ PulseElapsed > encButtonPeriod =>
              /\ joy[pulse.btn] = 0
              /\ pulse.releases = 1

\* A button has just been released, one time unit after its period, and a
\* tick was decoded while it was down
PulseHeldThenReleasedWitness ==
    /\ pulse.btn = joyEncUp
    /\ pulse.extra >= 1
    /\ PulseElapsed = encButtonPeriod + 1
    /\ pulse.releases = 1
    /\ joy[joyEncUp] = 0
    /\ calls = <<SetButton(joyEncUp, 0)>>

\* C10 as claimed: an encoder button pressed at activatedAt is no longer
\* pressed after a loop iteration whose clock is at or past
\* activatedAt + encButtonPeriod.
PulseOverAtPeriod ==
    (pulse.btn # -1 /\ PulseElapsed >= encButtonPeriod) => joy[pulse.btn] = 0

\* C10 as amended: an encoder button pressed at activatedAt is no longer
\* pressed after a loop iteration whose clock is past
\* activatedAt + encButtonPeriod, whatever the encoder does in the meantime.
PulseOverPastPeriod ==
    (pulse.btn # -1 /\ PulseElapsed > encButtonPeriod) =>
        /\ joy[pulse.btn] = 0
        /\ encButtonFlag \notin {1, 2}

\* The down button is up again after its period, the encoder still moving
PulseOverPastPeriodWitness ==
    /\ pulse.btn = joyEncDn
    /\ PulseElapsed > encButtonPeriod
    /\ joy[joyEncDn] = 0
    /\ pulse.extra >= 1
    /\ encArmFlag

(***************************************************************************)
(* Claims about the encoder button machine (SpecPulse)                     *)
(***************************************************************************)
EncButtonOf(dir) == IF dir = "up" THEN joyEncUp ELSE joyEncDn

\* C11 as claimed: each encoder button has the two states Idle and Active,
\* so a committed Up (Down) tick presses joyEncUp (joyEncDn) whenever that
\* button is not pressed.
EncButtonTwoState ==
    [][\A dir \in {"up", "down"} :
          (joy[EncButtonOf(dir)] = 0 /\ tick' = dir) =>
              joy'[EncButtonOf(dir)] = 1]_vars

\* The steps encButtonFlag takes in one iteration
EncFlagSteps ==
    {<<0, 0>>, <<0, 1>>, <<0, 2>>, <<1, 1>>, <<2, 2>>,
     <<1, 9>>, <<2, 9>>, <<9, 9>>, <<9, 0>>}

\* C11 as amended: the two encoder buttons share one machine, Idle (0),
\* Active (1: up pressed, 2: down pressed) and a release gap (9) that lasts
\* encButtonPeriod after the release.  A committed Up (Down) tick presses
\* its button exactly when the machine is Idle; a tick committed in any
\* other state presses nothing; Active and the gap end at the first
\* iteration past encButtonPeriod; there is no other transition.
EncButtonThreeState ==
    [][/\ <<encButtonFlag, encButtonFlag'>> \in EncFlagSteps
       /\ \A dir \in {"up", "down"} :
            (encButtonFlag = 0 /\ tick' = dir) =>
                /\ encButtonFlag' = (IF dir = "up" THEN 1 ELSE 2)
                /\ joy'[EncButtonOf(dir)] = 1
                /\ EncPresses(calls') = <<SetButton(EncButtonOf(dir), 1)>>
       /\ (encButtonFlag = 0 /\ tick' \notin {"up", "down"}) =>
              encButtonFlag' = 0
       /\ encButtonFlag # 0 =>
              /\ EncPresses(calls') = <<>>
              /\ encButtonFlag' # encButtonFlag
                   <=> Elapsed(now', encButtonTmr) > encButtonPeriod]_vars

\* A tick has been committed in the release gap, with neither button
\* pressed, and pressed nothing
EncButtonThreeStateWitness ==
    /\ encButtonFlag = 9
    /\ tick \in {"up", "down"}
    /\ joy[joyEncUp] = 0 /\ joy[joyEncDn] = 0
    /\ EncPresses(calls) = <<>>

(***************************************************************************)
(* SpecPot: one potentiometer free to move at every poll                   *)
(***************************************************************************)
\* Gap between two polls (a longer gap is three times this, 0 repeats one)
PollGapPot == 50
\* Last clock value explored
MaxTimePot == 450

InitPot == InitProgram /\ InitEnv(Pots) /\ InitTaperIdle
    /\ InitLegacy({"part_002"})

NextPot ==
    \E dt \in {0, PollGapPot, 3 * PollGapPot}, p \in PinsFor(focus) :
        /\ now + dt <= MaxTimePot
        /\ Poll(dt, p)
        /\ UNCHANGED <<logVars, taperVars, twin>>

SpecPot == InitPot /\ [][NextPot]_vars

\* The raw reading of the example, and its corrected value
SteadyRaw == 10

\* C12: on a potentiometer whose raw reading has been 10 at every poll since
\* the clock started at 0, no poll up to time potBouncePeriod updates the
\* axis, and the first poll after potBouncePeriod calls the axis setter once
\* with correctTaper(10) = 50 (so polls at 0, 50 and 100 change nothing and
\* the poll at 250 sets the axis to 50), and no later poll calls it again.
PotSettles ==
    [][potLog'.raws = {SteadyRaw} =>
          /\ correctTaper(SteadyRaw) = 50
          /\ now' <= potBouncePeriod =>
                /\ ChCalls(focus, calls') = <<>>
                /\ ChLast(focus)' = PotUnset
                /\ potLog'.n = 0
          /\ now' > potBouncePeriod =>
                /\ potLog'.n = 1
                /\ ChLast(focus)' = 50
                /\ axes'[ChSetter(focus)] = 50
                /\ ChCalls(focus, calls') =
                      (IF potLog.n = 0 THEN <<SetAxis(ChSetter(focus), 50)>>
                       ELSE <<>>)]_vars

\* The polls at 0, 50, 100 and 250 have read 10, and the last one has set
\* the throttle to 50
PotSettlesWitness ==
    /\ focus = "pot1"
    /\ potLog.raws = {SteadyRaw}
    /\ potLog.times = <<0, 50, 100, 250>>
    /\ now = 250
    /\ potLog = [n |-> 1, at |-> 250, gap |-> potBouncePeriod + 1,
                 raws |-> {SteadyRaw}, times |-> <<0, 50, 100, 250>>]
    /\ ChCalls(focus, calls) = <<SetAxis("setThrottle", 50)>>
    /\ axes.setThrottle = 50

\* C13: two consecutive axis setter calls of a potentiometer are more than
\* potBouncePeriod apart.
PotRateLimited == potLog.gap > potBouncePeriod

(***************************************************************************)
(* SpecSpin: the encoder at rest at code 00 is turned forward, one         *)
(* Gray-code step at a time, while the loop keeps running                  *)
(***************************************************************************)
\* Gap between two polls (0 repeats a poll)
PollGapSpin == 11
\* The rotation starts by this time
SpinBy == 40
\* Last clock value explored
MaxTimeSpin == 190

InitSpin == InitProgram /\ InitEnv({"enc"}) /\ InitTaperIdle
    /\ InitLegacy({"part_002"})

SpinGaps == {0, PollGapSpin}

\* A poll that finds the encoder where it was
Wait ==
    \E dt \in SpinGaps :
        /\ now + dt <= MaxTimeSpin
        /\ Poll(dt, EncPins(EncRead(pins.encPort)))
        /\ codeSince' = (IF event = "boot" THEN now' ELSE codeSince)
        /\ ticks' = TicksAfter(encLastVal)
        /\ UNCHANGED <<steps, taperVars, twin>>

\* A poll that finds the encoder one step forward
Forward ==
    \E dt \in SpinGaps :
        /\ now + dt <= MaxTimeSpin
        /\ event # "boot"
        /\ Len(steps) < MaxSteps
        /\ steps = <<>> => now <= SpinBy
        /\ Elapsed(now, codeSince) > encBouncePeriod
        /\ Poll(dt, EncPins(GrayStep(EncRead(pins.encPort), "up")))
        /\ codeSince' = now'
        /\ steps' = Append(steps, "up")
        /\ ticks' = TicksAfter(encLastVal)
        /\ UNCHANGED <<taperVars, twin>>

NextSpin == Wait \/ Forward

\* loop() is called again and again, and millis() advances
SpecSpin == InitSpin /\ [][NextSpin]_vars /\ WF_vars(Wait)

\* Only the iteration that decodes the first tick presses a button, and it
\* presses joyEncUp
SpinPressesOnce ==
    /\ EncPresses(calls) # <<>> =>
          /\ ticks = <<"up">>
          /\ EncPresses(calls) = <<SetButton(joyEncUp, 1)>>
    /\ joy[joyEncDn] = 0
    /\ ticks # <<>> => (pulse.btn = joyEncUp /\ pulse.presses = 1)
    /\ ticks = <<>> => (pulse.btn = -1 /\ joy[joyEncUp] = 0)

\* C14: from rest at code 00 with both buttons idle, a forward rotation
\* 00->01->11->10->00 that completes during the first pulse presses joyEncUp
\* once and joyEncDn never, and the loop alone releases joyEncUp: once
\* pressed it is eventually released, whether or not the encoder moves
\* again.
SpinOnePulse ==
    /\ []SpinPressesOnce
    /\ (joy[joyEncUp] = 1) ~> (joy[joyEncUp] = 0 /\ pulse.releases = 1)

\* The four steps were decoded while joyEncUp was down, and it is up again
SpinOnePulseWitness ==
    /\ ticks = <<"up", "up", "up", "up">>
    /\ encLastVal = 0
    /\ pulse.btn = joyEncUp
    /\ pulse.presses = 1
    /\ pulse.extra = 3
    /\ pulse.releases = 1
    /\ joy[joyEncUp] = 0

(***************************************************************************)
(* SpecWrap: the inputs settle after start-up, nothing happens until       *)
(* shortly before millis() wraps, and then one input is free to change     *)
(* while millis() passes 2^TimerBits - 1                                   *)
(***************************************************************************)
\* The loop iteration that ends the quiet stretch runs this long before the
\* wrap
WrapLead == 40
\* Last clock value explored, counted from the wrap
MaxTimeWrap == 110
\* Gap between two polls of the encoder (the next gap is one longer)
PollGapWrap == 33

InitWrap == InitProgram /\ InitEnv(Channels) /\ InitTaperIdle
    /\ InitLegacy({"part_002"})

Leapt == clock.t >= TimerModulus - WrapLead

Quiescent ==
    /\ ~encArmFlag /\ ~revArmFlag /\ ~gearArmFlag /\ ~flapArmFlag
    /\ encButtonFlag = 0
    /\ ChLast(focus) = Sample(focus, RestPins)

\* After start-up the inputs rest, and their values are committed
Settle ==
    /\ ~Leapt /\ ~Quiescent
    /\ Poll(butBouncePeriod + 1, RestPins)
    /\ UNCHANGED <<logVars, taperVars, twin>>

\* The iteration WrapLead before the wrap, none of the earlier ones having
\* found anything to do
Leap ==
    /\ ~Leapt /\ Quiescent
    /\ Poll(TimerModulus - WrapLead - now, RestPins)
    /\ UNCHANGED <<logVars, taperVars, twin>>

WrapGaps(f) ==
    IF f = "enc" THEN {0, PollGapWrap, PollGapWrap + 1}
    ELSE {0, PollGapBut, PollGapBut + 1}

Around ==
    /\ Leapt
    /\ \E dt \in WrapGaps(focus), p \in PinsFor(focus) :
          /\ clock.t + dt <= TimerModulus + MaxTimeWrap
          /\ Poll(dt, p)
          /\ UNCHANGED <<logVars, taperVars, twin>>

NextWrap == Settle \/ Leap \/ Around

SpecWrap == InitWrap /\ [][NextWrap]_vars

\* C15: also when millis() wraps between the arming (the press) and the
\* expiry check, an armed channel is disarmed, and commits a sample that
\* still differs, at the first iteration whose true elapsed time exceeds the
\* debounce period and not before, and a pressed encoder button is released
\* at the first iteration whose true elapsed time exceeds encButtonPeriod
\* and not before.
WrapSafe ==
    [][/\ ChArm(focus) =>
            /\ ~ChArm(focus)' <=> clock'.t - clock.armAt > ChPeriod(focus)
            /\ (/\ clock'.t - clock.armAt > ChPeriod(focus)
                /\ Sample(focus, pins') # ChLast(focus)) =>
                   /\ event' = "commit"
                   /\ ChLast(focus)' = Sample(focus, pins')
       /\ encButtonFlag \in {1, 2} =>
            IF clock'.t - clock.pressAt > encButtonPeriod
            THEN /\ encButtonFlag' = 9
                 /\ joy'[pulse.btn] = 0
                 /\ SetButton(pulse.btn, 0) \in {calls'[i] : i \in DOMAIN calls'}
            ELSE /\ encButtonFlag' = encButtonFlag
                 /\ joy'[pulse.btn] = 1]_vars

\* An encoder change armed before the wrap was committed after it, and the
\* button pressed before the wrap has just been released after it
WrapSafeWitness ==
    /\ focus = "enc"
    /\ clock.crossed
    /\ clock.pressAt < TimerModulus
    /\ clock.t > TimerModulus
    /\ now = clock.t - TimerModulus
    /\ encButtonFlag = 9
    /\ encButtonTmr = now
    /\ joy[pulse.btn] = 0
    /\ pulse.at > now

(***************************************************************************)
(* The earlier sketches: loop() decodes the encoder from the edges of its  *)
(* two pins, without a debounce; encUp() and encDown() press the buttons   *)
(***************************************************************************)
\* part_001: encTriggerPeriod, and the delay(5) that ends loop()
encTriggerPeriod001 == 100
loopDelay == 5
\* part_002: encTriggerPeriod, potTriggerPeriod and pot1Timer..pot3Timer,
\* which are never assigned
encTriggerPeriod == 50
potTriggerPeriod == 75
potTimer == 0

TriggerPeriod(sk) ==
    IF sk = "part_001" THEN encTriggerPeriod001 ELSE encTriggerPeriod

\* The encoder state encUp() and encDown() work on
EncState == [up |-> encTriggerUp, dn |-> encTriggerDn,
             upTimer |-> encUpTimer, dnTimer |-> encDnTimer,
             clicks |-> debugEncClicks, calls |-> <<>>]

\* void encUp()
encUp(st, t) ==
    IF ~st.up
    THEN [st EXCEPT !.calls = Append(@, SetButton(joyEncUp, 1)),
                    !.up = TRUE,
                    !.upTimer = t,
                    !.clicks = (@ + 1) % (2 ^ ClicksBits)]
    ELSE st

\* void encDown(): its test is of encTriggerUp
encDown(st, t) ==
    IF ~st.up
    THEN [st EXCEPT !.calls = Append(@, SetButton(joyEncDn, 1)),
                    !.dn = TRUE,
                    !.dnTimer = t,
                    !.clicks = (@ - 1) % (2 ^ ClicksBits)]
    ELSE st

\* The four edge tests of loop(), in order
LegacyDecode(st, lastUp, lastDn, readUp, readDn, t) ==
    LET s1 == IF lastUp = 1 /\ readUp = 0
              THEN (IF readDn = 1 THEN encDown(st, t) ELSE encUp(st, t))
              ELSE st
        s2 == IF lastUp = 0 /\ readUp = 1
              THEN (IF readDn = 1 THEN encUp(s1, t) ELSE encDown(s1, t))
              ELSE s1
        s3 == IF lastDn = 1 /\ readDn = 0
              THEN (IF readUp = 1 THEN encUp(s2, t) ELSE encDown(s2, t))
              ELSE s2
    IN IF lastDn = 0 /\ readDn = 1
       THEN (IF readUp = 1 THEN encDown(s3, t) ELSE encUp(s3, t))
       ELSE s3

\* Release joystick button after timer has lapsed
LegacyRelease(st, t, period) ==
    LET relUp == st.up /\ Elapsed(t, st.upTimer) > period
        s1 == IF relUp
              THEN [st EXCEPT !.calls = Append(@, SetButton(joyEncUp, 0)),
                              !.up = FALSE]
              ELSE st
        relDn == s1.dn /\ Elapsed(t, s1.dnTimer) > period
    IN IF relDn
       THEN [s1 EXCEPT !.calls = Append(@, SetButton(joyEncDn, 0)),
                       !.dn = FALSE]
       ELSE s1

\* One potentiometer of the earlier sketches: part_001 has no timer test
LegacyPotBlock(sk, setter, lastVal, raw, t) ==
    LET readSensor == correctTaper(raw)
        update == /\ readSensor # lastVal
                  /\ sk = "part_002" => Elapsed(t, potTimer) > potTriggerPeriod
    IN [lastVal |-> IF update THEN readSensor ELSE lastVal,
        calls   |-> IF update THEN <<SetAxis(setter, readSensor)>> ELSE <<>>]

LegacySetters == <<"setThrottle", "setRxAxis", "setRyAxis">>

\* The down button's pulse after the calls cs of an iteration at time t
RECURSIVE LegacyLogAfter(_, _, _, _)
LegacyLogAfter(lg, down, cs, t) ==
    IF cs = <<>> THEN lg
    ELSE LET c == Head(cs)
         IN IF c.fn # "setButton" \/ c.id # joyEncDn
            THEN LegacyLogAfter(lg, down, Tail(cs), t)
            ELSE IF c.val = 0
            THEN LegacyLogAfter(lg, FALSE, Tail(cs), t)
            ELSE IF down
            THEN LegacyLogAfter([lg EXCEPT !.dnPresses = Min(@ + 1, 2)],
                                TRUE, Tail(cs), t)
            ELSE LegacyLogAfter([lg EXCEPT !.dnAt = t, !.dnPresses = 1],
                                TRUE, Tail(cs), t)

\* loop() of the earlier sketches: one iteration, dt after the previous
\* one, the potentiometers reading raw, the encoder pins reading readUp and
\* readDn, and upAgain and dnAgain when loop() reads them a second time
LegacyPoll(dt, raw, readUp, readDn, upAgain, dnAgain) ==
    \E t \in {(legacyNow + dt) % TimerModulus} :
    \E pots \in {[k \in 1 .. 3 |->
                    LegacyPotBlock(sketch, LegacySetters[k],
                                   legacyPotLastVal[k], raw[k], t)]} :
    \E st \in {LegacyRelease(
                  LegacyDecode(EncState, encLastValUp, encLastValDn,
                               readUp, readDn, t),
                  t, TriggerPeriod(sketch))} :
    \E cs \in {pots[1].calls \o pots[2].calls \o pots[3].calls \o st.calls} :
       /\ legacyNow' = t
       /\ legacyPotLastVal' = <<pots[1].lastVal, pots[2].lastVal, pots[3].lastVal>>
       /\ encLastValUp' = upAgain
       /\ encLastValDn' = dnAgain
       /\ encTriggerUp' = st.up
       /\ encTriggerDn' = st.dn
       /\ encUpTimer' = st.upTimer
       /\ encDnTimer' = st.dnTimer
       /\ debugEncClicks' = st.clicks
       /\ legacyCalls' = cs
       /\ legacyJoy' = ApplyButtons(legacyJoy, cs)
       /\ legacyLog' = [LegacyLogAfter(legacyLog, legacyJoy[joyEncDn] = 1, cs, t)
                           EXCEPT !.skipped = /\ readUp # encLastValUp
                                              /\ readDn # encLastValDn]
       /\ UNCHANGED <<sketch, progVars, hidVars, envVars, taperVars, twin>>

(***************************************************************************)
(* SpecLegacy: the earlier sketches with the encoder pins free to change   *)
(* at every poll                                                           *)
(***************************************************************************)
\* Gap between two polls (the next gap is loopDelay longer)
LongGapLegacy == 25
\* Last clock value explored, counted from the trigger period
MaxTimeLegacy == 60

InitLegacyRun ==
    /\ InitProgram /\ InitEnv({"enc"}) /\ InitTaperIdle
    /\ InitLegacy({"part_001", "part_002"})

LegacyGaps(sk) ==
    IF sk = "part_001" THEN {LongGapLegacy, LongGapLegacy + loopDelay}
    ELSE {0, LongGapLegacy, LongGapLegacy + loopDelay}

LegacyRaws == {<<0, 0, 0>>, <<10, 0, 0>>}

NextLegacy ==
    \E dt \in LegacyGaps(sketch), raw \in LegacyRaws,
       readUp \in 0 .. 1, readDn \in 0 .. 1, upAgain \in 0 .. 1, dnAgain \in 0 .. 1 :
        /\ legacyNow + dt <= TriggerPeriod(sketch) + MaxTimeLegacy
        /\ LegacyPoll(dt, raw, readUp, readDn, upAgain, dnAgain)

SpecLegacy == InitLegacyRun /\ [][NextLegacy]_vars

\* C16: while the down button is pressed, encDown() presses it no second
\* time and leaves encDnTimer (encDownTimer) at the time of the first press,
\* so the button is no longer pressed once more than the trigger period has
\* passed since that press.
LegacyDownNoop ==
    legacyJoy[joyEncDn] = 1 =>
        /\ legacyLog.dnPresses = 1
        /\ encDnTimer = legacyLog.dnAt
        /\ Elapsed(legacyNow, legacyLog.dnAt) <= TriggerPeriod(sketch)

LegacyPresses ==
    SelectSeq(legacyCalls, LAMBDA c : c.fn = "setButton" /\ c.val = 1)

\* C18: an iteration that finds both encoder pins different from their
\* stored values presses no button, and the two buttons are never pressed
\* together.
LegacySkipIgnored ==
    /\ legacyLog.skipped => LegacyPresses = <<>>
    /\ ~(legacyJoy[joyEncUp] = 1 /\ legacyJoy[joyEncDn] = 1)

(***************************************************************************)
(* Claims about the arm flag (Spec)                                        *)
(***************************************************************************)
\* C17: a channel has at most one pending transition.  While its arm flag
\* is set, an iteration leaves its bounce timer alone whatever it samples,
\* and clears the flag exactly when the window has expired; while the flag
\* is clear, an iteration sets it, and the timer to the present time,
\* exactly when the sample differs from the last stable value.
OnePending ==
    [][/\ ChArm(focus) =>
            /\ ChTmr(focus)' = ChTmr(focus)
            /\ ChArm(focus)' <=> Elapsed(now', ChTmr(focus)) <= ChPeriod(focus)
       /\ ~ChArm(focus) =>
            /\ ChArm(focus)' <=> Sample(focus, pins') # ChLast(focus)
            /\ ChArm(focus)' => ChTmr(focus)' = now'
            /\ ~ChArm(focus)' => ChTmr(focus)' = ChTmr(focus)]_vars

\* An armed channel has been polled inside its window, the input back at
\* the last stable value: still armed, with the timer of the arming
OnePendingWitness ==
    /\ ChArm(focus)
    /\ event = "idle"
    /\ ChLast(focus) # ByteUnset
    /\ FocusSample = ChLast(focus)
    /\ ChTmr(focus) < now
    /\ FocusElapsed <= ChPeriod(focus)

(***************************************************************************)
(* SpecTwin: two runs of the sketch side by side.  Both read the same      *)
(* focus input; the first reads the other inputs at rest and runs the      *)
(* blocks of loop() in their order, the second reads the other inputs      *)
(* moving and runs the blocks in the reverse order.                        *)
(***************************************************************************)
\* loop() on the globals tw at time t reading p, the channel blocks in the
\* reverse of their order
TwinPoll(tw, t, p) ==
    LET flap == FlapBlock(tw.flapArmFlag, tw.flapBounceTmr, tw.flapLastVal,
                          FlapRead(p.flap1, p.flap2), t)
        gear == GearBlock(tw.gearArmFlag, tw.gearBounceTmr, tw.gearLastVal,
                          p.gear, t)
        rev  == RevBlock(tw.revArmFlag, tw.revBounceTmr, tw.revLastVal, p.rev, t)
        enc  == EncoderBlock(tw.encArmFlag, tw.encBounceTmr, tw.encLastVal,
                             tw.encButtonFlag, tw.encButtonTmr,
                             EncRead(p.encPort), t)
        pot3 == PotBlock("setRyAxis", tw.potLastVal3, tw.pot3Tmr, p.pot3, t)
        pot2 == PotBlock("setRxAxis", tw.potLastVal2, tw.pot2Tmr, p.pot2, t)
        pot1 == PotBlock("setThrottle", tw.potLastVal1, tw.pot1Tmr, p.pot1, t)
        cs   == flap.calls \o gear.calls \o rev.calls \o enc.calls
                \o pot3.calls \o pot2.calls \o pot1.calls
    IN [pot1Tmr |-> tw.pot1Tmr, pot2Tmr |-> tw.pot2Tmr, pot3Tmr |-> tw.pot3Tmr,
        potLastVal1 |-> pot1.lastVal, potLastVal2 |-> pot2.lastVal,
        potLastVal3 |-> pot3.lastVal,
        encArmFlag |-> enc.arm, encBounceTmr |-> enc.bounceTmr,
        encLastVal |-> enc.lastVal,
        encButtonFlag |-> enc.flag, encButtonTmr |-> enc.buttonTmr,
        revArmFlag |-> rev.arm, revBounceTmr |-> rev.bounceTmr,
        revLastVal |-> rev.lastVal,
        gearArmFlag |-> gear.arm, gearBounceTmr |-> gear.bounceTmr,
        gearLastVal |-> gear.lastVal,
        flapArmFlag |-> flap.arm, flapBounceTmr |-> flap.bounceTmr,
        flapLastVal |-> flap.lastVal,
        joy |-> ApplyButtons(tw.joy, cs),
        axes |-> ApplyAxes(tw.axes, cs),
        calls |-> cs]

\* The pins p with every input but f moved off its rest
Tilt(p, f) ==
    [encPort |-> IF f = "enc" THEN p.encPort ELSE 2 ^ encShift,
     rev     |-> IF f = "rev" THEN p.rev ELSE 0,
     gear    |-> IF f = "gear" THEN p.gear ELSE 0,
     flap1   |-> IF f = "flap" THEN p.flap1 ELSE 0,
     flap2   |-> IF f = "flap" THEN p.flap2 ELSE 1,
     pot1    |-> IF f = "pot1" THEN p.pot1 ELSE 600,
     pot2    |-> IF f = "pot2" THEN p.pot2 ELSE 20,
     pot3    |-> IF f = "pot3" THEN p.pot3 ELSE 10]

\* The free polls start at this time, past the potentiometer period
TwinStart == 210
\* Last clock value explored
MaxTimeTwin == 265

InitTwinRun == InitProgram /\ InitEnv(Channels \cup Pots) /\ InitTaperIdle
    /\ InitLegacy({"part_002"})

\* After start-up the inputs of both runs rest, and their values are
\* committed
TwinSettle ==
    /\ now < TwinStart /\ ~Quiescent
    /\ Poll(butBouncePeriod + 1, RestPins)
    /\ twin' = TwinPoll(twin, now', RestPins)
    /\ UNCHANGED <<logVars, taperVars>>

TwinJump ==
    /\ now < TwinStart /\ Quiescent
    /\ Poll(TwinStart - now, RestPins)
    /\ twin' = TwinPoll(twin, now', RestPins)
    /\ UNCHANGED <<logVars, taperVars>>

TwinGaps == {0, PollGapBut, PollGapBut + 1}

TwinRun ==
    /\ now >= TwinStart
    /\ \E dt \in TwinGaps, p \in PinsFor(focus) :
       \E q \in {p, Tilt(p, focus)} :
          /\ now + dt <= MaxTimeTwin
          /\ Poll(dt, p)
          /\ twin' = TwinPoll(twin, now', q)
          /\ UNCHANGED <<logVars, taperVars>>

NextTwin == TwinSettle \/ TwinJump \/ TwinRun

SpecTwin == InitTwinRun /\ [][NextTwin]_vars

\* All the calls of cs on the buttons, or the axis, of channel f
CallsOf(f, cs) ==
    SelectSeq(cs, LAMBDA c : /\ c.fn = ChSetter(f)
                             /\ (f \notin Pots => c.id \in ChButtons(f)))

\* Channel f in the first run, and in the second
MainChannel(f) ==
    <<ChArm(f), ChLast(f), ChTmr(f),
      IF f = "enc" THEN <<encButtonFlag, encButtonTmr>> ELSE <<>>,
      [b \in ChButtons(f) |-> joy[b]],
      IF f \in Pots THEN axes[ChSetter(f)] ELSE 0,
      CallsOf(f, calls)>>

TwinChannel(f) ==
    <<CASE f = "enc" -> twin.encArmFlag [] f = "rev" -> twin.revArmFlag
        [] f = "gear" -> twin.gearArmFlag [] f = "flap" -> twin.flapArmFlag
        [] OTHER -> FALSE,
      CASE f = "enc" -> twin.encLastVal [] f = "rev" -> twin.revLastVal
        [] f = "gear" -> twin.gearLastVal [] f = "flap" -> twin.flapLastVal
        [] f = "pot1" -> twin.potLastVal1 [] f = "pot2" -> twin.potLastVal2
        [] f = "pot3" -> twin.potLastVal3,
      CASE f = "enc" -> twin.encBounceTmr [] f = "rev" -> twin.revBounceTmr
        [] f = "gear" -> twin.gearBounceTmr [] f = "flap" -> twin.flapBounceTmr
        [] f = "pot1" -> twin.pot1Tmr [] f = "pot2" -> twin.pot2Tmr
        [] f = "pot3" -> twin.pot3Tmr,
      IF f = "enc" THEN <<twin.encButtonFlag, twin.encButtonTmr>> ELSE <<>>,
      [b \in ChButtons(f) |-> twin.joy[b]],
      IF f \in Pots THEN twin.axes[ChSetter(f)] ELSE 0,
      CallsOf(f, twin.calls)>>

\* C19: the channels are independent.  After every iteration the focus
\* channel's last value, arm flag, timers, Joystick outputs and Joystick
\* calls are the same in the run whose other inputs rest and in the run
\* whose other inputs move and whose blocks run in the reverse order; and
\* in the first run a resting channel's outputs are called only by the
\* commit of its rest value after start-up, never by the focus channel's
\* activity.
ChannelsIndependent ==
    /\ MainChannel(focus) = TwinChannel(focus)
    /\ \A g \in (Channels \cup Pots) \ {focus} :
          CallsOf(g, calls) # <<>> =>
              /\ ChLast(g) = Sample(g, RestPins)
              /\ now <= TwinStart

\* The focus channel has just committed in both runs while another channel
\* committed in the second run only
ChannelsIndependentWitness ==
    /\ event = "commit"
    /\ now > TwinStart
    /\ CallsOf(focus, calls) # <<>>
    /\ CallsOf(focus, twin.calls) = CallsOf(focus, calls)
    /\ twin.calls # calls
    /\ Len(twin.calls) > Len(calls)
    /\ twin.gearLastVal # gearLastVal

(***************************************************************************)
(* The encoder buttons and encButtonFlag (SpecPulse)                       *)
(***************************************************************************)
\* C20: joyEncUp and joyEncDn are never pressed together; encButtonFlag is
\* 0, 1, 2 or 9; joyEncUp is pressed exactly when it is 1 and joyEncDn
\* exactly when it is 2.
EncFlagMatchesButtons ==
    /\ ~(joy[joyEncUp] = 1 /\ joy[joyEncDn] = 1)
    /\ encButtonFlag \in {0, 1, 2, 9}
    /\ joy[joyEncUp] = 1 <=> encButtonFlag = 1
    /\ joy[joyEncDn] = 1 <=> encButtonFlag = 2

\* joyEncDn is pressed, and an Up tick decoded since has pressed nothing
EncFlagMatchesButtonsWitness ==
    /\ encButtonFlag = 2
    /\ joy[joyEncDn] = 1
    /\ joy[joyEncUp] = 0
    /\ tick = "up"
    /\ pulse.btn = joyEncDn
    /\ pulse.extra >= 1

(***************************************************************************)
(* SpecGap: the encoder free to change at every poll, the run long enough  *)
(* for a button to be pressed, released and, after the release state,      *)
(* pressed again                                                           *)
(***************************************************************************)
\* Gap between two polls (0 repeats a poll)
PollGapGap == 34
\* Last clock value explored
MaxTimeGap == 320

InitGap == InitProgram /\ InitEnv({"enc"}) /\ InitTaperIdle
    /\ InitLegacy({"part_002"})

NextGap ==
    \E dt \in {0, PollGapGap}, p \in PinsFor("enc") :
        /\ now + dt <= MaxTimeGap
        /\ Poll(dt, p)
        /\ UNCHANGED <<logVars, taperVars, twin>>

SpecGap == InitGap /\ [][NextGap]_vars

\* C21: after the release of an encoder button encButtonFlag stays 9 until
\* the first iteration more than encButtonPeriod after the release, so more
\* than encButtonPeriod passes between a release and the next press of
\* either button; a tick committed while a button is held or in the release
\* state presses nothing then or later (an iteration presses only the
\* button of the tick it commits itself), yet encLastVal takes the
\* committed code.
ReleaseGapKept ==
    [][/\ encButtonFlag = 9 =>
            /\ pulse.releases = 1
            /\ encButtonFlag' \in {9, 0}
            /\ encButtonFlag' = 0 <=> now' - pulse.relAt > encButtonPeriod
       /\ EncPresses(calls') # <<>> =>
            /\ encButtonFlag = 0
            /\ tick' \in {"up", "down"}
            /\ EncPresses(calls') = <<SetButton(EncButtonOf(tick'), 1)>>
            /\ pulse.relAt # -1 => now' - pulse.relAt > encButtonPeriod
       /\ (encButtonFlag # 0 /\ tick' \in {"up", "down"}) =>
            /\ EncPresses(calls') = <<>>
            /\ joy'[joyEncUp] <= joy[joyEncUp]
            /\ joy'[joyEncDn] <= joy[joyEncDn]
            /\ encButtonFlag' \notin {1, 2} \ {encButtonFlag}
            /\ encLastVal' = EncRead(pins'.encPort)
            /\ encLastVal' # encLastVal]_vars

\* A button has just been pressed again, past the release state of the
\* pulse before, a tick decoded in that release state having pressed nothing
ReleaseGapKeptWitness ==
    /\ pulse.relAt # -1
    /\ pulse.lost
    /\ pulse.at = now
    /\ pulse.releases = 0
    /\ now - pulse.relAt > encButtonPeriod
    /\ EncPresses(calls) # <<>>
    /\ encButtonFlag \in {1, 2}
    /\ joy[pulse.btn] = 1

(***************************************************************************)
(* The switch buttons after each Joystick call (Spec).  Joystick.begin()   *)
(* leaves the automatic send on, so the host sees the buttons as they are  *)
(* after every single setButton call.                                      *)
(***************************************************************************)
\* The calls a sequence of calls has made after its first, its first two, ..
Prefixes(cs) == {SubSeq(cs, 1, k) : k \in 1 .. Len(cs)}

\* The buttons of channel f that are pressed in j
Pressed(f, j) == {b \in ChButtons(f) : j[b] = 1}

\* The flap button of each case of the switch statement
FlapButtonOf(flapVal) ==
    CASE flapVal = 2 -> {joyFlapUp}
      [] flapVal = 0 -> {joyFlapTo}
      [] flapVal = 1 -> {joyFlapLg}
      [] OTHER       -> {}

\* C22 as claimed: once flapLastVal is committed, after every single
\* setButton call at most one flap button is pressed, and a pressed one is
\* the button of flapLastVal (0b10 Up, 0b00 T/O, 0b01 LDG, 0b11 none).
FlapFollowsEveryCall ==
    [][\A pre \in Prefixes(CallsOf("flap", calls')) :
          LET j == ApplyButtons(joy, pre)
          IN /\ Cardinality(Pressed("flap", j)) <= 1
             /\ Pressed("flap", j) \subseteq FlapButtonOf(flapLastVal')]_vars

\* C22 as amended: after every single setButton call at most one flap
\* button is pressed; at the end of every loop iteration no flap button is
\* pressed before the first commit and, after it, the pressed one is the
\* button of flapLastVal (0b10 Up, 0b00 T/O, 0b01 LDG, 0b11 none).  Between
\* the calls of a committing iteration flapLastVal is already the new value
\* while the button of the old value may still be pressed.
FlapFollowsIteration ==
    [][/\ \A pre \in Prefixes(CallsOf("flap", calls')) :
             /\ Cardinality(Pressed("flap", ApplyButtons(joy, pre))) <= 1
             /\ Pressed("flap", ApplyButtons(joy, pre))
                   \subseteq FlapButtonOf(flapLastVal) \cup FlapButtonOf(flapLastVal')
       /\ Pressed("flap", joy') = FlapButtonOf(flapLastVal')]_vars

\* The switch has just been committed from LDG to UP: joyFlapLg was cleared
\* by the second call and joyFlapUp pressed by the third
FlapFollowsIterationWitness ==
    /\ focus = "flap"
    /\ event = "commit"
    /\ run.from = 1
    /\ flapLastVal = 2
    /\ CallsOf("flap", calls) = FlapCalls(2)
    /\ Pressed("flap", joy) = {joyFlapUp}

\* C23: once revLastVal is committed joyRev is pressed exactly when it is 0;
\* once gearLastVal is committed exactly one of joyGearUp and joyGearDn is
\* pressed at the end of every loop iteration, joyGearUp when gearLastVal
\* is 0 and joyGearDn otherwise; and after no single setButton call are
\* both gear buttons pressed.
RevGearFollow ==
    [][/\ revLastVal' # ByteUnset =>
             (joy'[joyRev] = 1 <=> revLastVal' = 0)
       /\ gearLastVal' # ByteUnset =>
             Pressed("gear", joy') =
                 (IF gearLastVal' = 0 THEN {joyGearUp} ELSE {joyGearDn})
       /\ \A pre \in Prefixes(CallsOf("gear", calls')) :
             Pressed("gear", ApplyButtons(joy, pre)) # {joyGearUp, joyGearDn}]_vars

\* The gear switch has just been committed from 1 to 0: joyGearDn was
\* cleared and joyGearUp pressed, the reverse thrust button at rest
RevGearFollowWitness ==
    /\ focus = "gear"
    /\ event = "commit"
    /\ run.from = 1
    /\ gearLastVal = 0
    /\ CallsOf("gear", calls) = GearCalls(0)
    /\ Pressed("gear", joy) = {joyGearUp}
    /\ revLastVal = 1
    /\ joy[joyRev] = 0

(***************************************************************************)
(* SpecBoot: one input is found in some position by the first iteration    *)
(* and stays there, the others rest, and the loop keeps running            *)
(***************************************************************************)
\* Gap between two polls (the next gap is one longer, and 0 repeats a poll)
PollGapBoot == 40
\* Last clock value explored
MaxTimeBoot == 290

InitBoot == InitProgram /\ InitEnv(Channels \cup Pots) /\ InitTaperIdle
    /\ InitLegacy({"part_002"})

\* An iteration that finds every input where the first iteration found it
Hold ==
    \E dt \in {0, PollGapBoot, PollGapBoot + 1}, p \in PinsFor(focus) :
        /\ event # "boot" => p = pins
        /\ now + dt <= MaxTimeBoot
        /\ Poll(dt, p)
        /\ UNCHANGED <<logVars, taperVars, twin>>

NextBoot == Hold

\* loop() is called again and again, and millis() advances
SpecBoot == InitBoot /\ [][NextBoot]_vars /\ WF_vars(Hold)

\* The Joystick shows the position of input g
Shown(g) ==
    CASE g = "enc"  -> Pressed("enc", joy) = {}
      [] g = "rev"  -> joy[joyRev] = Not(pins.rev)
      [] g = "gear" -> Pressed("gear", joy) =
                          (IF pins.gear = 0 THEN {joyGearUp} ELSE {joyGearDn})
      [] g = "flap" -> Pressed("flap", joy) =
                          FlapButtonOf(FlapRead(pins.flap1, pins.flap2))
      [] OTHER      -> axes[ChSetter(g)] = Sample(g, pins)

\* Every input's value is committed and shown, and nothing is pending
BootSettled ==
    /\ event # "boot"
    /\ \A g \in Channels \cup Pots :
          /\ ChLast(g) = Sample(g, pins)
          /\ ~ChArm(g)
          /\ Shown(g)

\* The first iteration arms all four debounced channels, whatever they read
BootArms ==
    event = "boot" =>
        \A g \in Channels :
            /\ ChLast(g) \notin {Sample(g, q) : q \in PinsFor(g)}
            /\ ChArm(g)'
            /\ ChTmr(g)' = now'

\* C24: the last values start outside the range of the readings (255, and
\* 2048 for the potentiometers), so the first iteration arms every debounced
\* channel; and with each input constant from start-up and the loop running
\* on with an advancing clock, every input's value is eventually committed
\* and the Joystick buttons and axes show its position from then on, no
\* input having changed.
BootSettles ==
    /\ [][BootArms]_vars
    /\ [](potLastVal1 = PotUnset =>
             PotUnset \notin {correctTaper(r) : r \in RawLevels})
    /\ <>[]BootSettled

\* The flap switch, found at LDG by the first iteration and never moved, is
\* committed and joyFlapLg pressed; the other inputs are settled as well
BootSettlesWitness ==
    /\ focus = "flap"
    /\ FlapRead(pins.flap1, pins.flap2) = 1
    /\ run.from = ByteUnset
    /\ run.fresh
    /\ run.commits = 1
    /\ flapLastVal = 1
    /\ Pressed("flap", joy) = {joyFlapLg}
    /\ BootSettled

=============================================================================
